---- MODULE Spec2Model ----
(***************************************************************************)
(* Model of the SQLite 3 database-header decoder of sqlite3-header.        *)
(*                                                                         *)
(* The only executable decoder of the repository is `main` in src/main.rs: *)
(* it reads the file, then walks the header field by field, asserting the  *)
(* format rules and printing every field as soon as it is decoded.         *)
(* src/lib.rs holds the typed field model (no code path constructs it) and *)
(* src/error.rs an error type that main never builds.                      *)
(*                                                                         *)
(* Byte offsets are the 0-based offsets of the source; a buffer is a TLA+  *)
(* sequence, so offset i is element i+1.                                   *)
(***************************************************************************)
EXTENDS Integers, Sequences, FiniteSets, TLC

VARIABLES
    fileExists,  \* whether "data.sqlite" can be read
    contents,    \* the bytes of "data.sqlite", which main holds as `contents` once read
    pc,          \* the statement group of main that runs next (or that failed)
    status,      \* "running", "ok" (main returned Ok), "err" (main returned Err), "panic"
    failure,     \* how main stopped: the kind, the source line, the values in the message
    stdout,      \* the lines printed so far, in order
    inspected    \* the byte offsets of `contents` read so far

vars == <<fileExists, contents, pc, status, failure, stdout, inspected>>

----------------------------------------------------------------------------
(* Bounds of the model *)

\* A header of the input set is the well-formed base header after at most this
\* many deviations (a field overwritten, or the buffer truncated).
MaxDeviations == 2

----------------------------------------------------------------------------
(* Constants and pure functions of the source *)

MAGIC_HEADER_STRING ==
    <<83, 81, 76, 105, 116, 101, 32, 102, 111, 114, 109, 97, 116, 32, 51, 0>>

\* u16::from_be_bytes
u16_from_be_bytes(bytes) == bytes[1] * 256 + bytes[2]

\* u32::from_be_bytes
u32_from_be_bytes(bytes) ==
    bytes[1] * 16777216 + bytes[2] * 65536 + bytes[3] * 256 + bytes[4]

\* fn slice_to_word(slice: &[u8]) -> Result<u32, TryFromSliceError>
slice_to_word(slice) ==
    IF Len(slice) = 4
    THEN [ok |-> TRUE, val |-> u32_from_be_bytes(slice)]
    ELSE [ok |-> FALSE, val |-> 0]

\* u16::is_power_of_two
is_power_of_two(x) == x \in {2^k : k \in 0..15}

\* contents[lo..hi]
Slice(c, lo, hi) == SubSeq(c, lo + 1, hi)

\* contents[i]
At(c, i) == c[i + 1]

----------------------------------------------------------------------------
(* The checks of main, as predicates of a buffer long enough to hold them *)

\* Mutant: the comparison stops before the terminating NUL of the magic string.
MagicMatches_WithoutNul(c) == Slice(c, 0, 15) = SubSeq(MAGIC_HEADER_STRING, 1, 15)

\* contents[0..16] == MAGIC_HEADER_STRING
MagicMatches(c) == Slice(c, 0, 16) = MAGIC_HEADER_STRING

page_size_of(c) == u16_from_be_bytes(Slice(c, 16, 18))

\* The line of the first page-size assertion that fails, 0 when all three hold.
PageSizeFailedLine(page_size) ==
    IF ~is_power_of_two(page_size) THEN 19
    ELSE IF ~(page_size > 511) THEN 20
    ELSE IF ~(page_size < 32769) THEN 21
    ELSE 0

\* match contents[18] { 1 => "legacy", 2 => "Write-Ahead Logging", _ => unimplemented!() }
FileFormatName(b) ==
    IF b = 1 THEN "legacy"
    ELSE IF b = 2 THEN "Write-Ahead Logging"
    ELSE "unimplemented"

\* match db_encoding { 1 => "UTF-8", 2 => "UTF-16le", 3 => "UTF-16be", _ => unimplemented!() }
EncodingName(w) ==
    IF w = 1 THEN "UTF-8"
    ELSE IF w = 2 THEN "UTF-16le"
    ELSE IF w = 3 THEN "UTF-16be"
    ELSE "unimplemented"

SchemaFormatLegal(w) == w \in {1, 2, 3, 4}

ReservedAllZero(reserved) == \A k \in 1..Len(reserved) : reserved[k] = 0

----------------------------------------------------------------------------
(* The input set: the base header after at most MaxDeviations deviations *)

Word(a, b, c, d) == <<a, b, c, d>>

BaseHeader ==
    MAGIC_HEADER_STRING
    \o <<16, 0>>                \* page size 4096
    \o <<1, 1>>                 \* write and read version
    \o <<0>>                    \* reserved bytes per page
    \o <<64, 32, 32>>           \* payload fractions
    \o Word(0, 0, 0, 3)         \* file change counter
    \o Word(0, 0, 0, 2)         \* in-header database size
    \o Word(0, 0, 0, 0)         \* freelist page index
    \o Word(0, 0, 0, 0)         \* freelist count
    \o Word(0, 0, 0, 1)         \* schema cookie
    \o Word(0, 0, 0, 4)         \* schema format
    \o Word(0, 0, 0, 0)         \* default page cache size
    \o Word(0, 0, 0, 0)         \* largest root b-tree page
    \o Word(0, 0, 0, 1)         \* text encoding
    \o Word(0, 0, 0, 0)         \* user version
    \o Word(0, 0, 0, 0)         \* incremental-vacuum flag
    \o Word(0, 0, 0, 0)         \* application id
    \o [k \in 1..20 |-> 0]      \* reserved region
    \o Word(0, 0, 0, 3)         \* version-valid-for number
    \o Word(0, 46, 95, 24)      \* SQLite version number 3039000

Patch(off, bytes) == [kind |-> "patch", off |-> off, bytes |-> bytes]
Cut(n) == [kind |-> "cut", off |-> n, bytes |-> <<>>]

\* The most significant byte of a 32-bit field stays below 128 so that every
\* decoded value is an integer TLC can hold.
Deviations ==
    {Patch(0, <<82>>), Patch(7, <<0>>), Patch(15, <<1>>)}
    \cup {Patch(16, b) : b \in {<<0, 0>>, <<0, 1>>, <<1, 255>>, <<2, 0>>, <<3, 0>>,
                               <<128, 0>>, <<128, 1>>}}
    \cup {Patch(o, <<v>>) : o \in {18, 19}, v \in {0, 2, 3}}
    \cup {Patch(20, <<32>>)}
    \cup {Patch(21, <<0>>), Patch(21, <<65>>), Patch(22, <<33>>), Patch(23, <<64>>)}
    \cup {Patch(24, Word(1, 2, 3, 4) \o Word(5, 6, 7, 8) \o Word(0, 0, 9, 10)
                    \o Word(0, 0, 0, 11) \o Word(12, 0, 0, 13))}
    \cup {Patch(44, w) : w \in {Word(0, 0, 0, 0), Word(0, 0, 0, 1), Word(0, 0, 0, 3),
                               Word(0, 0, 0, 5), Word(4, 0, 0, 0)}}
    \cup {Patch(48, Word(1, 2, 3, 4)), Patch(48, Word(127, 255, 255, 255))}
    \cup {Patch(52, Word(0, 0, 0, 7)), Patch(52, Word(1, 2, 3, 4))}
    \cup {Patch(56, w) : w \in {Word(0, 0, 0, 0), Word(0, 0, 0, 2), Word(0, 0, 0, 3),
                               Word(0, 0, 0, 4), Word(1, 0, 0, 0)}}
    \cup {Patch(60, Word(1, 2, 3, 4))}
    \cup {Patch(64, Word(0, 0, 0, 1)), Patch(64, Word(1, 0, 0, 0))}
    \cup {Patch(68, Word(14, 15, 16, 17))}
    \cup {Patch(o, <<1>>) : o \in 72..91}
    \cup {Patch(91, <<255>>)}
    \cup {Patch(92, Word(1, 2, 3, 4) \o Word(0, 46, 95, 25))}
    \cup {Cut(n) : n \in {0, 15, 17, 18, 20, 26, 46, 99}}

\* The buffer with one deviation applied; a deviation that does not fit the
\* buffer (a patch past its end, a cut beyond its length) leaves it as it is.
Apply(buf, d) ==
    IF d.kind = "cut"
    THEN IF d.off <= Len(buf) THEN SubSeq(buf, 1, d.off) ELSE buf
    ELSE IF d.off + Len(d.bytes) <= Len(buf)
         THEN SubSeq(buf, 1, d.off) \o d.bytes
              \o SubSeq(buf, d.off + Len(d.bytes) + 1, Len(buf))
         ELSE buf

RECURSIVE Deviating(_)
Deviating(k) ==
    IF k = 0 THEN {BaseHeader}
    ELSE LET fewer == Deviating(k - 1)
         IN  fewer \cup {Apply(buf, d) : buf \in fewer, d \in Deviations}

Inputs == Deviating(MaxDeviations)

----------------------------------------------------------------------------
(* State *)

NoFailure == [kind |-> "none", line |-> 0, args |-> <<>>]

Init ==
    /\ \/ fileExists = TRUE /\ contents \in Inputs
       \/ fileExists = FALSE /\ contents = <<>>
    /\ pc = "read"
    /\ status = "running"
    /\ failure = NoFailure
    /\ stdout = <<>>
    /\ inspected = {}

----------------------------------------------------------------------------
(* Building blocks of the steps of main *)

println(label, value) == [label |-> label, value |-> value]

\* The statement group completed: its lines are printed, control moves on.
Goto(next, lines) ==
    /\ pc' = next
    /\ stdout' = stdout \o lines
    /\ UNCHANGED <<status, failure>>

\* A panic (failed assert!, unimplemented!(), index out of range) aborts main.
Panic(kind, line, args) ==
    /\ status' = "panic"
    /\ failure' = [kind |-> kind, line |-> line, args |-> args]
    /\ UNCHANGED <<pc, stdout>>

\* The `?` operator on an Err: main returns the error to its caller.
ReturnErr(kind, line) ==
    /\ status' = "err"
    /\ failure' = [kind |-> kind, line |-> line, args |-> <<>>]
    /\ UNCHANGED <<pc, stdout>>

At_(step) ==
    /\ pc = step
    /\ status = "running"
    /\ UNCHANGED <<fileExists, contents>>

\* let x = slice_to_word(&contents[lo..lo+4])?; println!(label, x);
WordStep(lo, line, label, next) ==
    /\ IF Len(contents) < lo + 4
       THEN /\ Panic("index", line, <<lo + 4, Len(contents)>>)
            /\ UNCHANGED inspected
       ELSE LET r == slice_to_word(Slice(contents, lo, lo + 4))
            IN  /\ inspected' = inspected \cup (lo..(lo + 3))
                /\ IF r.ok
                   THEN Goto(next, <<println(label, r.val)>>)
                   ELSE ReturnErr("TryFromSliceError", line)

\* Mutant: the fraction is printed without being asserted.
FractionStep_NotAsserted(i, expected, line, label, next) ==
    IF Len(contents) <= i
    THEN /\ Panic("index", line, <<Len(contents), i>>)
         /\ UNCHANGED inspected
    ELSE /\ inspected' = inspected \cup {i}
         /\ Goto(next, <<println(label, At(contents, i))>>)

\* assert!(contents[i] == expected); println!(label, contents[i]);
FractionStep(i, expected, line, label, next) ==
    /\ IF Len(contents) <= i
       THEN /\ Panic("index", line, <<Len(contents), i>>)
            /\ UNCHANGED inspected
       ELSE /\ inspected' = inspected \cup {i}
            /\ IF At(contents, i) = expected
               THEN Goto(next, <<println(label, At(contents, i))>>)
               ELSE Panic("assert", line, <<>>)

\* println!(label, match contents[i] { 1 => .., 2 => .., _ => unimplemented!() });
FileFormatStep(i, line, label, next) ==
    /\ IF Len(contents) <= i
       THEN /\ Panic("index", line, <<Len(contents), i>>)
            /\ UNCHANGED inspected
       ELSE /\ inspected' = inspected \cup {i}
            /\ IF FileFormatName(At(contents, i)) # "unimplemented"
               THEN Goto(next, <<println(label, FileFormatName(At(contents, i)))>>)
               ELSE Panic("unimplemented", line + 3, <<>>)

----------------------------------------------------------------------------
(* The steps of main, in source order *)

\* let contents = std::fs::read("data.sqlite")?;
read ==
    /\ At_("read")
    /\ UNCHANGED inspected
    /\ IF fileExists
       THEN Goto("magic_header_string", <<>>)
       ELSE ReturnErr("io", 11)

magic_header_string ==
    /\ At_("magic_header_string")
    /\ IF Len(contents) < 16
       THEN /\ Panic("index", 13, <<16, Len(contents)>>)
            /\ UNCHANGED inspected
       ELSE /\ inspected' = inspected \cup (0..15)
            /\ IF MagicMatches(contents)
               THEN Goto("page_size",
                         <<println("MAGIC HEADER STRING", Slice(contents, 0, 16))>>)
               ELSE Panic("assert", 13, <<>>)

page_size ==
    /\ At_("page_size")
    /\ IF Len(contents) < 18
       THEN /\ Panic("index", 16, <<18, Len(contents)>>)
            /\ UNCHANGED inspected
       ELSE /\ inspected' = inspected \cup {16, 17}
            /\ IF PageSizeFailedLine(page_size_of(contents)) = 0
               THEN Goto("file_format_write_version",
                         <<println("PAGE SIZE", page_size_of(contents))>>)
               ELSE Panic("assert", PageSizeFailedLine(page_size_of(contents)), <<>>)

file_format_write_version ==
    /\ At_("file_format_write_version")
    /\ FileFormatStep(18, 25, "FILE FORMAT WRITE VERSION", "file_format_read_version")

file_format_read_version ==
    /\ At_("file_format_read_version")
    /\ FileFormatStep(19, 30, "FILE FORMAT READ VERSION", "reserved_bytes_per_page")

reserved_bytes_per_page ==
    /\ At_("reserved_bytes_per_page")
    /\ IF Len(contents) <= 20
       THEN /\ Panic("index", 36, <<Len(contents), 20>>)
            /\ UNCHANGED inspected
       ELSE /\ inspected' = inspected \cup {20}
            /\ Goto("maximum_embedded_payload_fraction",
                    <<println("RESERVED BYTES PER PAGE", At(contents, 20))>>)

maximum_embedded_payload_fraction ==
    /\ At_("maximum_embedded_payload_fraction")
    /\ FractionStep(21, 64, 38, "MAXIMUM EMBEDDED PAYLOAD FRACTION",
                    "minimum_embedded_payload_fraction")

minimum_embedded_payload_fraction ==
    /\ At_("minimum_embedded_payload_fraction")
    /\ FractionStep(22, 32, 41, "MINIMUM EMBEDDED PAYLOAD FRACTION",
                    "leaf_payload_fraction")

leaf_payload_fraction ==
    /\ At_("leaf_payload_fraction")
    /\ FractionStep(23, 32, 44, "LEAF PAYLOAD FRACTION", "file_change_counter")

file_change_counter ==
    /\ At_("file_change_counter")
    /\ WordStep(24, 47, "FILE CHANGE COUNTER", "in_header_database_size")

in_header_database_size ==
    /\ At_("in_header_database_size")
    /\ WordStep(28, 50, "IN-HEADER DATABASE SIZE", "freelist_index")

freelist_index ==
    /\ At_("freelist_index")
    /\ WordStep(32, 53, "FREELIST PAGE INDEX", "freelist_count")

freelist_count ==
    /\ At_("freelist_count")
    /\ WordStep(36, 56, "FREELIST COUNT", "schema_cookie")

schema_cookie ==
    /\ At_("schema_cookie")
    /\ WordStep(40, 59, "SCHEMA COOKIE", "schema_format")

schema_format ==
    /\ At_("schema_format")
    /\ IF Len(contents) < 48
       THEN /\ Panic("index", 62, <<48, Len(contents)>>)
            /\ UNCHANGED inspected
       ELSE LET r == slice_to_word(Slice(contents, 44, 48))
            IN  /\ inspected' = inspected \cup (44..47)
                /\ IF ~r.ok
                   THEN ReturnErr("TryFromSliceError", 62)
                   ELSE IF SchemaFormatLegal(r.val)
                   THEN Goto("default_page_cache_size", <<println("SCHEMA FORMAT", r.val)>>)
                   ELSE Panic("assert", 63, <<>>)

default_page_cache_size ==
    /\ At_("default_page_cache_size")
    /\ WordStep(48, 66, "DEFAULT PAGE CACHE SIZE", "btree_largest_page_root")

btree_largest_page_root ==
    /\ At_("btree_largest_page_root")
    /\ WordStep(52, 69, "LARGEST ROOT B-TREE PAGE", "db_encoding")

db_encoding ==
    /\ At_("db_encoding")
    /\ IF Len(contents) < 60
       THEN /\ Panic("index", 72, <<60, Len(contents)>>)
            /\ UNCHANGED inspected
       ELSE LET r == slice_to_word(Slice(contents, 56, 60))
            IN  /\ inspected' = inspected \cup (56..59)
                /\ IF ~r.ok
                   THEN ReturnErr("TryFromSliceError", 72)
                   ELSE IF EncodingName(r.val) # "unimplemented"
                   THEN Goto("user_version",
                             <<println("DATABASE TEXT ENCODING", EncodingName(r.val))>>)
                   ELSE Panic("unimplemented", 77, <<>>)

user_version ==
    /\ At_("user_version")
    /\ WordStep(60, 80, "USER VERSION", "incremental_vacuum_mode")

incremental_vacuum_mode ==
    /\ At_("incremental_vacuum_mode")
    /\ IF Len(contents) < 68
       THEN /\ Panic("index", 83, <<68, Len(contents)>>)
            /\ UNCHANGED inspected
       ELSE LET r == slice_to_word(Slice(contents, 64, 68))
            IN  /\ inspected' = inspected \cup (64..67)
                /\ IF r.ok
                   THEN Goto("application_id",
                             <<println("INCREMENTAL-VACUUM MODE", r.val # 0)>>)
                   ELSE ReturnErr("TryFromSliceError", 83)

application_id ==
    /\ At_("application_id")
    /\ WordStep(68, 86, "APPLICATION ID", "reserved")

reserved ==
    /\ At_("reserved")
    /\ IF Len(contents) < 92
       THEN /\ Panic("index", 89, <<92, Len(contents)>>)
            /\ UNCHANGED inspected
       ELSE /\ inspected' = inspected \cup (72..91)
            /\ IF ReservedAllZero(Slice(contents, 72, 92))
               THEN Goto("version_valid_for_number", <<>>)
               ELSE Panic("assert", 90, <<>>)

version_valid_for_number ==
    /\ At_("version_valid_for_number")
    /\ WordStep(92, 92, "VERSION VALID FOR NUMBER", "sqlite_version_number")

sqlite_version_number ==
    /\ At_("sqlite_version_number")
    /\ WordStep(96, 95, "SQLITE VERSION NUMBER", "return")

\* Ok(())
return ==
    /\ At_("return")
    /\ pc' = "done"
    /\ status' = "ok"
    /\ UNCHANGED <<failure, stdout, inspected>>

Next ==
    \/ read
    \/ magic_header_string
    \/ page_size
    \/ file_format_write_version
    \/ file_format_read_version
    \/ reserved_bytes_per_page
    \/ maximum_embedded_payload_fraction
    \/ minimum_embedded_payload_fraction
    \/ leaf_payload_fraction
    \/ file_change_counter
    \/ in_header_database_size
    \/ freelist_index
    \/ freelist_count
    \/ schema_cookie
    \/ schema_format
    \/ default_page_cache_size
    \/ btree_largest_page_root
    \/ db_encoding
    \/ user_version
    \/ incremental_vacuum_mode
    \/ application_id
    \/ reserved
    \/ version_valid_for_number
    \/ sqlite_version_number
    \/ return

Spec == Init /\ [][Next]_vars

TypeOK ==
    /\ status \in {"running", "ok", "err", "panic"}
    /\ (status = "ok") <=> (pc = "done")
    /\ (status = "running") => (failure = NoFailure)

----------------------------------------------------------------------------
(* Vocabulary of the properties.  These definitions read the buffer on their *)
(* own, byte by byte, and do not use the operators of the decoder above.     *)

Byte(i) == contents[i + 1]
BE16(lo) == Byte(lo) * 256 + Byte(lo + 1)
BE32(lo) == ((Byte(lo) * 256 + Byte(lo + 1)) * 256 + Byte(lo + 2)) * 256 + Byte(lo + 3)

Stopped == status # "running"
Succeeded == status = "ok"
Failed == status \in {"panic", "err"}
FailedAt(step) == Failed /\ pc = step
FullHeader == fileExists /\ Len(contents) = 100

Printed(label) == \E k \in 1..Len(stdout) : stdout[k].label = label
ValueOf(label) == stdout[CHOOSE k \in 1..Len(stdout) : stdout[k].label = label].value
Shows(label, value) == Printed(label) /\ ValueOf(label) = value

\* The validation rules as the specification states them.
RuleMagic == \A i \in 0..15 : Byte(i) = MAGIC_HEADER_STRING[i + 1]
StatedPageSize == IF BE16(16) = 1 THEN 65536 ELSE BE16(16)
RulePageSize == StatedPageSize \in {512, 1024, 2048, 4096, 8192, 16384, 32768, 65536}
RuleFractions == Byte(21) = 64 /\ Byte(22) = 32 /\ Byte(23) = 32
RuleSchemaFormat == BE32(44) \in 1..4
RuleTextEncoding == BE32(56) \in 1..3
RuleVacuum == ~(BE32(52) = 0 /\ BE32(64) # 0)
RuleReserved == \A i \in 72..91 : Byte(i) = 0

\* Headers on which the specification and the decoder agree about the page
\* size and the two version bytes.
PlainPageSize == BE16(16) # 1
PlainVersions == Byte(18) \in {1, 2} /\ Byte(19) \in {1, 2}

StatedFileFormat(b) ==
    IF b = 1 THEN "legacy" ELSE IF b = 2 THEN "Write-Ahead Logging" ELSE "inaccessible"

----------------------------------------------------------------------------
(* C1 -- page-size decoding *)

\* C1: in a header valid in every other respect, the decoded page size is 65536
\* when raw = 1 and raw otherwise, and decode succeeds iff that size is a power
\* of two in [512, 65536]; otherwise it fails at the page-size check.
C1_PageSizeDecoding ==
    (Stopped /\ FullHeader /\ RuleMagic /\ PlainVersions /\ RuleFractions
        /\ RuleSchemaFormat /\ RuleTextEncoding /\ RuleVacuum /\ RuleReserved)
    => IF RulePageSize
       THEN Succeeded /\ Shows("PAGE SIZE", StatedPageSize)
       ELSE FailedAt("page_size")

----------------------------------------------------------------------------
(* C2 -- vacuum consistency *)

\* C2: in a header valid in every other respect, with L = [52,56) and
\* F = [64,68): L = 0 and F # 0 fails; otherwise decode succeeds and reports L
\* and the mode (incremental iff F # 0).
C2_VacuumConsistency ==
    (Stopped /\ FullHeader /\ RuleMagic /\ RulePageSize /\ PlainPageSize /\ PlainVersions
        /\ RuleFractions /\ RuleSchemaFormat /\ RuleTextEncoding /\ RuleReserved)
    => IF BE32(52) = 0 /\ BE32(64) # 0
       THEN Failed
       ELSE /\ Succeeded
            /\ Shows("LARGEST ROOT B-TREE PAGE", BE32(52))
            /\ Shows("INCREMENTAL-VACUUM MODE", BE32(64) # 0)

----------------------------------------------------------------------------
(* C3 -- file-format versions *)

\* C3: for every value of byte 18 and of byte 19 in a header valid in every
\* other respect, decode succeeds and each version is decoded as Legacy for 1,
\* WriteAheadLogging for 2 and Inaccessible for any other value.
C3_FileFormatNeverFails ==
    (Stopped /\ FullHeader /\ RuleMagic /\ RulePageSize /\ PlainPageSize /\ RuleFractions
        /\ RuleSchemaFormat /\ RuleTextEncoding /\ RuleVacuum /\ RuleReserved)
    => /\ Succeeded
       /\ Shows("FILE FORMAT WRITE VERSION", StatedFileFormat(Byte(18)))
       /\ Shows("FILE FORMAT READ VERSION", StatedFileFormat(Byte(19)))

----------------------------------------------------------------------------
(* C4 -- magic check *)

----------------------------------------------------------------------------
(* C5 -- a successful decode is exact *)

FieldsExact ==
    /\ Shows("FILE CHANGE COUNTER", BE32(24))
    /\ Shows("IN-HEADER DATABASE SIZE", BE32(28))
    /\ Shows("FREELIST PAGE INDEX", BE32(32))
    /\ Shows("FREELIST COUNT", BE32(36))
    /\ Shows("SCHEMA COOKIE", BE32(40))
    /\ Shows("DEFAULT PAGE CACHE SIZE", BE32(48))
    /\ Shows("USER VERSION", BE32(60))
    /\ Shows("APPLICATION ID", BE32(68))
    /\ Shows("VERSION VALID FOR NUMBER", BE32(92))
    /\ Shows("SQLITE VERSION NUMBER", BE32(96))
    /\ Shows("RESERVED BYTES PER PAGE", Byte(20))

\* C5: every 100-byte header that satisfies all validation rules decodes
\* successfully, and every decoded field equals the big-endian value of its own
\* byte range (byte 20 verbatim).
C5_DecodeExact ==
    (Stopped /\ FullHeader /\ RuleMagic /\ RulePageSize /\ RuleFractions
        /\ RuleSchemaFormat /\ RuleTextEncoding /\ RuleVacuum /\ RuleReserved)
    => Succeeded /\ FieldsExact

\* What the decoder does guarantee: the fields of every header it accepts are exact.
AcceptedFieldsExact == Succeeded => FieldsExact

----------------------------------------------------------------------------
(* C6 -- all-or-nothing, silent decode *)

\* C6: on every input for which decode fails, no decoded field value has been
\* emitted before the failure and the decoder has printed nothing.
C6_AllOrNothing == Failed => stdout = <<>>

----------------------------------------------------------------------------
(* C7 -- short input *)

\* C7: for every buffer shorter than 100 bytes decode returns a length-mismatch
\* error value (TryFromSliceError, the error of the field codec) instead of
\* succeeding or aborting.
C7_ShortInputIsLengthMismatch ==
    (Stopped /\ fileExists /\ Len(contents) < 100)
    => status = "err" /\ failure.kind = "TryFromSliceError"

----------------------------------------------------------------------------
(* C8 -- strict enumerations *)

\* C8: in a header valid in every other respect, decode succeeds iff the schema
\* format is in {1,2,3,4} (respectively the text encoding in {1,2,3}), reporting
\* the value decoded; otherwise it fails at that field's own check with a failure
\* that carries the observed value.
C8_StrictEnumerations ==
    (Stopped /\ FullHeader /\ RuleMagic /\ RulePageSize /\ PlainPageSize /\ PlainVersions
        /\ RuleFractions /\ RuleVacuum /\ RuleReserved)
    => /\ (RuleSchemaFormat /\ RuleTextEncoding)
            => /\ Succeeded
               /\ Shows("SCHEMA FORMAT", BE32(44))
               /\ Shows("DATABASE TEXT ENCODING",
                        IF BE32(56) = 1 THEN "UTF-8"
                        ELSE IF BE32(56) = 2 THEN "UTF-16le" ELSE "UTF-16be")
       /\ (~RuleSchemaFormat /\ RuleTextEncoding)
            => FailedAt("schema_format") /\ failure.args = <<BE32(44)>>
       /\ (RuleSchemaFormat /\ ~RuleTextEncoding)
            => FailedAt("db_encoding") /\ failure.args = <<BE32(56)>>

\* What the decoder does guarantee: an out-of-set value stops the decode at the
\* field's own check, and an in-set value is reported as decoded.
StrictEnumerationsWithoutValue ==
    (Stopped /\ FullHeader /\ RuleMagic /\ RulePageSize /\ PlainPageSize /\ PlainVersions
        /\ RuleFractions /\ RuleReserved)
    => /\ (RuleSchemaFormat /\ RuleTextEncoding) <=> Succeeded
       /\ ~RuleSchemaFormat => FailedAt("schema_format") /\ ~Printed("SCHEMA FORMAT")
       /\ (RuleSchemaFormat /\ ~RuleTextEncoding)
            => FailedAt("db_encoding") /\ ~Printed("DATABASE TEXT ENCODING")

----------------------------------------------------------------------------
(* C9 -- reserved region *)

\* C9: a header that is otherwise valid fails at the reserved-region check iff
\* one of its bytes [72,92) is nonzero.
C9_ReservedRegion ==
    (Stopped /\ FullHeader /\ RuleMagic /\ RulePageSize /\ RuleFractions
        /\ RuleSchemaFormat /\ RuleTextEncoding /\ RuleVacuum)
    => (FailedAt("reserved") <=> ~RuleReserved)

\* What the decoder does guarantee: the same, for headers whose page size and
\* version bytes it implements.
ReservedRegionOnPlainHeaders ==
    (Stopped /\ FullHeader /\ RuleMagic /\ RulePageSize /\ PlainPageSize /\ PlainVersions
        /\ RuleFractions /\ RuleSchemaFormat /\ RuleTextEncoding)
    => (FailedAt("reserved") <=> ~RuleReserved)

----------------------------------------------------------------------------
(* C10 -- failure precedence *)

\* The checks of the decoder in the order of the claim, each with the step that
\* makes it and the end of the byte range it reads.
CheckStep ==
    <<"magic_header_string", "page_size", "file_format_write_version",
      "file_format_read_version", "maximum_embedded_payload_fraction",
      "minimum_embedded_payload_fraction", "leaf_payload_fraction",
      "schema_format", "db_encoding", "reserved">>
CheckEnd == <<16, 18, 19, 20, 22, 23, 24, 48, 60, 92>>

\* Check k fails on the buffer: the bytes it reads are there and break its rule
\* (for the page size and the versions, the rule the decoder checks).
CheckFails(k) ==
    /\ Len(contents) >= CheckEnd[k]
    /\ CASE k = 1 -> ~RuleMagic
         [] k = 2 -> BE16(16) \notin {512, 1024, 2048, 4096, 8192, 16384, 32768}
         [] k = 3 -> Byte(18) \notin {1, 2}
         [] k = 4 -> Byte(19) \notin {1, 2}
         [] k = 5 -> Byte(21) # 64
         [] k = 6 -> Byte(22) # 32
         [] k = 7 -> Byte(23) # 32
         [] k = 8 -> ~RuleSchemaFormat
         [] k = 9 -> ~RuleTextEncoding
         [] k = 10 -> ~RuleReserved

FailingChecks == {k \in 1..Len(CheckStep) : CheckFails(k)}
FirstFailing == CHOOSE k \in FailingChecks : \A j \in FailingChecks : k <= j

\* C10: the checks run in offset order and the first failing one ends the decode:
\* once decode has stopped on a buffer with failing checks, the failure is that
\* of the failing check with the lowest offset, and no byte beyond that check's
\* range has been inspected (no later check was evaluated).
C10_FailurePrecedence ==
    (Stopped /\ fileExists /\ FailingChecks # {})
    => /\ FailedAt(CheckStep[FirstFailing])
       /\ inspected \subseteq 0..(CheckEnd[FirstFailing] - 1)

\* A header that breaks two rules, rejected for the one at the lower offset.
C10_Witness ==
    /\ FullHeader
    /\ Cardinality(FailingChecks) >= 2
    /\ FirstFailing > 1
    /\ FailedAt(CheckStep[FirstFailing])

====
